---- MODULE Spec2Model ----
(***************************************************************************)
(* Model of the Agno streaming chat API (src/main.py): the process-wide    *)
(* session store, the agent factory, the SSE streaming relay and the HTTP  *)
(* routes in front of them.                                                *)
(*                                                                         *)
(* Scheduling.  All route handlers are coroutines on one event loop, so a  *)
(* handler runs without interruption between two suspension points.  The   *)
(* only suspension points of a chat request are the return of chat_stream  *)
(* (the response starts), the `yield`s of stream_agent_response (the frame *)
(* is handed to the transport) and the `await asyncio.sleep(0.01)` after   *)
(* the start and token frames.  The `for chunk in response_generator` loop *)
(* is a plain synchronous loop: it does not suspend.  Each action below is *)
(* one such uninterrupted segment.  No code runs between the yield of a    *)
(* start or token frame and the sleep that follows it, so the two waits    *)
(* are one state, "sleep"; after the done or error frame there is no sleep *)
(* and nothing left to run, so the relay is "closed".                      *)
(*                                                                         *)
(* The agent (agno) and its model are outside the program: what agent.run  *)
(* yields or raises, and whether the Agent constructor raises, is chosen   *)
(* nondeterministically.  uuid.uuid4() returns a value it never returned   *)
(* before.  Request validation and the 422 answer are FastAPI's.           *)
(*                                                                         *)
(* Text is modelled as a sequence of characters, so that concatenation is  *)
(* \o and the empty string is << >>.  Session ids are strings; Python's    *)
(* None for an absent id is the distinguished value NoneId.                *)
(***************************************************************************)
EXTENDS Integers, Sequences, FiniteSets, TLC

(***************************************************************************)
(* Bounds of the model.                                                    *)
(***************************************************************************)
MaxTokens == 2     \* chunks with text the agents produce in all
MaxSkip   == 1     \* chunks without text between two chunks with text
MaxClock  == 1     \* wall-clock readings 0..MaxClock
MaxSeed   == 7     \* longest pre-existing history in SeededSpec
MaxChunks == 3     \* longest output of the scripted agent in LoopSpec
MaxExchanges == 4  \* most pre-existing exchanges in ExchangeSpec

(***************************************************************************)
(* Program constants.                                                      *)
(***************************************************************************)
ContextWindow == 6   \* history[-6:] in create_research_agent
MinMessageLen == 1   \* Field(min_length=1) of ChatRequest.message

\* the chat requests in flight; request 1 is the one that arrives first
Requests == {1, 2}

NoneId    == "<None>"            \* session_id: Optional[str] = None
NamedIds  == {"s1"}              \* ids a client may invent
Uuids     == {"u1"}              \* values str(uuid.uuid4()) returns in a run
NoTimestamp == -1                \* "last_message": None

\* message texts the client of request r may send
Messages(r) == { << >>, IF r = 1 THEN <<"h">> ELSE <<"y">> }

\* One increment of agent output.  kind "obj": an object with a `content`
\* attribute, which is None unless has_content; kind "str": a plain str;
\* kind "other": neither.
Chunks ==
    { [kind |-> "obj",   has_content |-> TRUE,  text |-> <<"a">>],
      [kind |-> "obj",   has_content |-> TRUE,  text |-> <<>>],
      [kind |-> "obj",   has_content |-> FALSE, text |-> <<>>],
      [kind |-> "str",   has_content |-> FALSE, text |-> <<"b">>],
      [kind |-> "str",   has_content |-> FALSE, text |-> <<>>],
      [kind |-> "other", has_content |-> FALSE, text |-> <<>>] }

VARIABLES
    session_store,       \* session id -> history (sequence of messages)
    groq_api_key,        \* os.getenv("GROQ_API_KEY") is set
    clock,               \* what datetime.now() reads
    uuids_issued,        \* uuids uuid.uuid4() has returned so far
    pc,                  \* where each chat request stands
    request,             \* the body of each chat request
    session_id,          \* the session id resolved for each chat request
    agent,               \* the agent built for each chat request
    full_response_text,  \* the relay's accumulator
    events,              \* the frames each relay has yielded so far
    appended,            \* the messages each relay has appended so far
                         \* (a record of its add_to_session_history calls)
    status               \* HTTP status of each chat response (0: none yet)

vars == << session_store, groq_api_key, clock, uuids_issued, pc, request,
           session_id, agent, full_response_text, events, appended,
           status >>

reqvars == << pc, request, session_id, agent, full_response_text, events,
              appended, status >>

(***************************************************************************)
(* Python helpers.                                                         *)
(***************************************************************************)
\* truth value of an Optional[str]: None and "" are falsy
Truthy(id) == id \notin {NoneId, ""}

\* seq[:n] in the place of seq[-n:]
PySuffix_Head(seq, n) ==
    SubSeq(seq, 1, IF Len(seq) < n THEN Len(seq) ELSE n)

\* seq[-n:]
PySuffix(seq, n) ==
    LET len   == Len(seq)
        start == IF len - n > 0 THEN len - n ELSE 0
    IN  SubSeq(seq, start + 1, len)

IsPrefix(s, t) == Len(s) <= Len(t) /\ SubSeq(t, 1, Len(s)) = s

Last(s) == s[Len(s)]

(***************************************************************************)
(* Session store.                                                          *)
(***************************************************************************)
Message(role, content, timestamp) ==
    [role |-> role, content |-> content, timestamp |-> timestamp]

HistoryOf(store, id) == IF id \in DOMAIN store THEN store[id] ELSE << >>

\* get_or_create_session_id: the id it returns; uuid is the value
\* uuid.uuid4() returns if it is called
get_or_create_session_id(store, id, uuid) ==
    IF Truthy(id) /\ id \in DOMAIN store
    THEN id
    ELSE IF Truthy(id) THEN id ELSE uuid

\* get_or_create_session_id without its two membership tests: the session
\* is initialised whether or not it exists
get_or_create_store_Reset(store, id, uuid) ==
    LET new_session_id == IF Truthy(id) THEN id ELSE uuid
    IN  [k \in DOMAIN store \cup {new_session_id} |->
            IF k = new_session_id THEN << >> ELSE store[k]]

\* get_or_create_session_id: the store it leaves
get_or_create_store(store, id, uuid) ==
    IF Truthy(id) /\ id \in DOMAIN store
    THEN store
    ELSE LET new_session_id == IF Truthy(id) THEN id ELSE uuid
         IN  IF new_session_id \notin DOMAIN store
             THEN store @@ (new_session_id :> << >>)
             ELSE store

\* whether get_or_create_session_id calls uuid.uuid4()
NeedsUuid(store, id) == ~Truthy(id)

\* add_to_session_history with insert(0, ...) in the place of append
add_to_session_history_Insert(store, id, role, content, now) ==
    LET base == IF id \notin DOMAIN store THEN store @@ (id :> << >>)
                ELSE store
    IN  [base EXCEPT ![id] = << Message(role, content, now) >> \o @]

\* add_to_session_history without its `if session_id not in session_store`:
\* a message for a session that is gone is dropped
add_to_session_history_NoCreate(store, id, role, content, now) ==
    IF id \notin DOMAIN store THEN store
    ELSE [store EXCEPT ![id] = Append(@, Message(role, content, now))]

\* add_to_session_history: the store it leaves
add_to_session_history(store, id, role, content, now) ==
    LET base == IF id \notin DOMAIN store THEN store @@ (id :> << >>)
                ELSE store
    IN  [base EXCEPT ![id] = Append(@, Message(role, content, now))]

(***************************************************************************)
(* Agent factory.                                                          *)
(***************************************************************************)
BaseInstructions ==
    << [kind |-> "rule", text |-> "You are a helpful assistant."],
       [kind |-> "rule",
        text |-> "When asked about current information, use DuckDuckGo search."],
       [kind |-> "rule",
        text |-> "Always use the search tool for questions about news, weather, or current events."],
       [kind |-> "rule", text |-> "Do no Add special symbols and emojis"] >>

\* f"{msg['role']}: {msg['content']}\n" for each message, in order
RenderLines(msgs) ==
    [i \in 1..Len(msgs) |-> [role |-> msgs[i].role, content |-> msgs[i].content]]

\* conversation_context built from history[-5:]
ConversationContext_Last5(history) ==
    IF history # << >>
    THEN << [kind  |-> "context",
             lines |-> RenderLines(PySuffix(history, ContextWindow - 1))] >>
    ELSE << >>

\* conversation_context: << >> stands for the empty string
ConversationContext(history) ==
    IF history # << >>
    THEN << [kind  |-> "context",
             lines |-> RenderLines(PySuffix(history, ContextWindow))] >>
    ELSE << >>

\* create_research_agent: the agent is represented by its instruction list
create_research_agent(store, id) ==
    LET history == HistoryOf(store, id)
        conversation_context == ConversationContext(history)
    IN  [instructions |->
            IF conversation_context # << >>
            THEN BaseInstructions \o conversation_context
            ELSE BaseInstructions]

NoAgent == [instructions |-> << >>]

(***************************************************************************)
(* Streaming relay: stream_agent_response.                                 *)
(***************************************************************************)
StartEvent(id)      == [type |-> "start", session_id |-> id]
TokenEvent(content) == [type |-> "token", content |-> content]
DoneEvent(id)       == [type |-> "done", session_id |-> id]
ErrorEvent          == [type |-> "error", error |-> "exception"]

Terminal == {"done", "error"}

\* the loop body without its `elif isinstance(chunk, str)` branch
ExtractContent_NoStr(chunk) ==
    IF chunk.kind = "obj" /\ chunk.has_content THEN chunk.text
    ELSE << >>

\* the `content` the loop body extracts from one chunk
ExtractContent(chunk) ==
    IF chunk.kind = "obj" /\ chunk.has_content THEN chunk.text
    ELSE IF chunk.kind = "str" THEN chunk.text
    ELSE << >>

TokenCount(evs) == Cardinality({i \in 1..Len(evs) : evs[i].type = "token"})

\* chunk sequences of length 0..n
RECURSIVE ChunkSeqs(_)
ChunkSeqs(n) ==
    IF n <= 0 THEN {<< >>}
    ELSE LET shorter == ChunkSeqs(n - 1)
         IN  shorter \cup {Append(cs, c) : cs \in shorter, c \in Chunks}

\* what the agent's generator can hand to the loop between two yields:
\* at most MaxSkip chunks without text, then possibly one more chunk
Segments ==
    {cs \in ChunkSeqs(MaxSkip + 1) :
        \A i \in 1..(Len(cs) - 1) : ExtractContent(cs[i]) = << >>}

\* the segments that end in a chunk with text: the loop yields a token frame
TokenSegments ==
    {cs \in Segments : Len(cs) > 0 /\ ExtractContent(Last(cs)) # << >>}

\* the segments without text: the loop runs through them without a yield
QuietSegments == Segments \ TokenSegments

\* token frames yielded so far, over all relays
RECURSIVE TotalTokens(_)
TotalTokens(rs) ==
    IF rs = {} THEN 0
    ELSE LET r == CHOOSE q \in rs : TRUE
         IN  TokenCount(events[r]) + TotalTokens(rs \ {r})

\* RelayStart behind a per-session lock held until the relay is over
RelayStart_Locked(r) ==
    /\ pc[r] = "response"
    /\ \A q \in Requests \ {r} :
          ~(pc[q] = "sleep" /\ session_id[q] = session_id[r])
    /\ session_store' = add_to_session_history(session_store, session_id[r],
                            "user", request[r].message, clock)
    /\ appended' = [appended EXCEPT
                      ![r] = Append(@, Message("user", request[r].message, clock))]
    /\ events' = [events EXCEPT ![r] = Append(@, StartEvent(session_id[r]))]
    /\ pc' = [pc EXCEPT ![r] = "sleep"]
    /\ UNCHANGED << groq_api_key, clock, uuids_issued, request, session_id,
                    agent, full_response_text, status >>

\* RelayStart without the append of the user message
RelayStart_NoAppend(r) ==
    /\ pc[r] = "response"
    /\ events' = [events EXCEPT ![r] = Append(@, StartEvent(session_id[r]))]
    /\ pc' = [pc EXCEPT ![r] = "sleep"]
    /\ UNCHANGED << session_store, appended, groq_api_key, clock, uuids_issued,
                    request, session_id, agent, full_response_text, status >>

\* RelayStart handed request.session_id in the place of the resolved id
RelayStart_RequestId(r) ==
    /\ pc[r] = "response"
    /\ session_store' = add_to_session_history(session_store,
                            request[r].session_id, "user",
                            request[r].message, clock)
    /\ appended' = [appended EXCEPT
                      ![r] = Append(@, Message("user", request[r].message, clock))]
    /\ events' = [events EXCEPT ![r] = Append(@, StartEvent(session_id[r]))]
    /\ pc' = [pc EXCEPT ![r] = "sleep"]
    /\ UNCHANGED << groq_api_key, clock, uuids_issued, request, session_id,
                    agent, full_response_text, status >>

\* first segment: append the user message, yield the start frame
RelayStart(r) ==
    /\ pc[r] = "response"
    /\ session_store' = add_to_session_history(session_store, session_id[r],
                            "user", request[r].message, clock)
    /\ appended' = [appended EXCEPT
                      ![r] = Append(@, Message("user", request[r].message, clock))]
    /\ events' = [events EXCEPT ![r] = Append(@, StartEvent(session_id[r]))]
    /\ pc' = [pc EXCEPT ![r] = "sleep"]
    /\ UNCHANGED << groq_api_key, clock, uuids_issued, request, session_id,
                    agent, full_response_text, status >>

\* OnToken with the new fragment put in front of the accumulator
OnToken_Prepend(r, content) ==
    /\ full_response_text' = [full_response_text EXCEPT ![r] = content \o @]
    /\ events' = [events EXCEPT ![r] = Append(@, TokenEvent(content))]
    /\ UNCHANGED << session_store, appended >>

\* the loop yields a token frame for the first chunk with text
OnToken(r, content) ==
    /\ full_response_text' = [full_response_text EXCEPT ![r] = @ \o content]
    /\ events' = [events EXCEPT ![r] = Append(@, TokenEvent(content))]
    /\ UNCHANGED << session_store, appended >>

\* the agent's generator is exhausted: append the answer, yield done
OnExhausted(r) ==
    /\ IF full_response_text[r] # << >>
       THEN /\ session_store' = add_to_session_history(session_store,
                    session_id[r], "assistant", full_response_text[r], clock)
            /\ appended' = [appended EXCEPT ![r] =
                    Append(@, Message("assistant", full_response_text[r], clock))]
       ELSE UNCHANGED << session_store, appended >>
    /\ events' = [events EXCEPT ![r] = Append(@, DoneEvent(session_id[r]))]
    /\ UNCHANGED full_response_text

\* OnException saving the partial answer before it yields the error frame
OnException_KeepPartial(r) ==
    /\ IF full_response_text[r] # << >>
       THEN /\ session_store' = add_to_session_history(session_store,
                    session_id[r], "assistant", full_response_text[r], clock)
            /\ appended' = [appended EXCEPT ![r] =
                    Append(@, Message("assistant", full_response_text[r], clock))]
       ELSE UNCHANGED << session_store, appended >>
    /\ events' = [events EXCEPT ![r] = Append(@, ErrorEvent)]
    /\ UNCHANGED full_response_text

\* OnException falling through to the done frame after the error frame
OnException_ThenDone(r) ==
    /\ events' = [events EXCEPT
                    ![r] = Append(Append(@, ErrorEvent), DoneEvent(session_id[r]))]
    /\ UNCHANGED << session_store, appended, full_response_text >>

\* agent.run or the agent's generator raised: yield the error frame
OnException(r) ==
    /\ events' = [events EXCEPT ![r] = Append(@, ErrorEvent)]
    /\ UNCHANGED << session_store, appended, full_response_text >>

\* The start or token frame was taken and the sleep is over: run the agent
\* loop up to the next yield.  The loop consumes one segment of chunks: all
\* but the last carry no text and leave no trace, so the step is told by
\* what the last chunk yields.  After a token frame the relay sleeps again;
\* after the done or error frame nothing is left to run.
RelayRun(r) ==
    /\ pc[r] = "sleep"
    /\ \/ /\ TotalTokens(Requests) < MaxTokens
          /\ \E content \in {ExtractContent(Last(cs)) : cs \in TokenSegments} :
                OnToken(r, content)
          /\ pc' = [pc EXCEPT ![r] = "sleep"]
       \/ /\ QuietSegments # {}
          /\ OnExhausted(r) \/ OnException(r)
          /\ pc' = [pc EXCEPT ![r] = "closed"]
    /\ UNCHANGED << groq_api_key, clock, uuids_issued, request, session_id,
                    agent, status >>

(***************************************************************************)
(* HTTP surface.                                                           *)
(***************************************************************************)
\* ids a client can put in a request: none, the empty string, an invented
\* id, or an id the server handed out in an earlier start frame
ClientIds == {NoneId, ""} \cup NamedIds \cup uuids_issued

\* ids a client can put in the path of /session/{session_id}
PathIds == NamedIds \cup uuids_issued

\* ChatRequest without min_length
ValidBody_Any(body) == Len(body.message) >= 0

\* ChatRequest: message has min_length=1, session_id is optional
ValidBody(body) == Len(body.message) >= MinMessageLen

Reply(r, code) ==
    /\ status' = [status EXCEPT ![r] = code]
    /\ pc' = [pc EXCEPT ![r] = "closed"]

\* the body fails validation: 422, the handler is not entered
ChatInvalid(r, body) ==
    /\ ~ValidBody(body)
    /\ Reply(r, 422)
    /\ UNCHANGED << session_store, uuids_issued, session_id, agent >>

\* the handler appending the user message before it builds the agent
ChatHandler_AppendFirst(r, body) ==
    /\ ValidBody(body)
    /\ IF ~groq_api_key
       THEN /\ Reply(r, 500)
            /\ UNCHANGED << session_store, uuids_issued, session_id, agent >>
       ELSE \E uuid \in (IF NeedsUuid(session_store, body.session_id)
                         THEN Uuids \ (uuids_issued \cup DOMAIN session_store)
                         ELSE {NoneId}) :
            LET id    == get_or_create_session_id(session_store,
                                                  body.session_id, uuid)
                store == add_to_session_history(
                             get_or_create_store(session_store,
                                                 body.session_id, uuid),
                             id, "user", body.message, clock)
            IN  /\ session_store' = store
                /\ uuids_issued' = IF uuid = NoneId THEN uuids_issued
                                   ELSE uuids_issued \cup {uuid}
                /\ session_id' = [session_id EXCEPT ![r] = id]
                /\ \E constructed \in BOOLEAN :
                     IF constructed
                     THEN /\ agent' = [agent EXCEPT
                                         ![r] = create_research_agent(store, id)]
                          /\ status' = [status EXCEPT ![r] = 200]
                          /\ pc' = [pc EXCEPT ![r] = "response"]
                     ELSE /\ Reply(r, 500)
                          /\ UNCHANGED agent

\* the handler with a valid body
ChatHandler(r, body) ==
    /\ ValidBody(body)
    /\ IF ~groq_api_key
       THEN /\ Reply(r, 500)
            /\ UNCHANGED << session_store, uuids_issued, session_id, agent >>
       ELSE \E uuid \in (IF NeedsUuid(session_store, body.session_id)
                         THEN Uuids \ (uuids_issued \cup DOMAIN session_store)
                         ELSE {NoneId}) :
            LET id    == get_or_create_session_id(session_store,
                                                  body.session_id, uuid)
                store == get_or_create_store(session_store,
                                             body.session_id, uuid)
            IN  /\ session_store' = store
                /\ uuids_issued' = IF uuid = NoneId THEN uuids_issued
                                   ELSE uuids_issued \cup {uuid}
                /\ session_id' = [session_id EXCEPT ![r] = id]
                /\ \E constructed \in BOOLEAN :
                     IF constructed
                     THEN /\ agent' = [agent EXCEPT
                                         ![r] = create_research_agent(store, id)]
                          /\ status' = [status EXCEPT ![r] = 200]
                          /\ pc' = [pc EXCEPT ![r] = "response"]
                     ELSE /\ Reply(r, 500)
                          /\ UNCHANGED agent

\* the bodies the client of request r may send
Bodies(r) ==
    {[message |-> m, session_id |-> id] : m \in Messages(r), id \in ClientIds}

\* POST /chat with the given body
Chat(r, body) ==
    /\ pc[r] = "idle"
    /\ \A q \in Requests : q < r => pc[q] # "idle"
    /\ request' = [request EXCEPT ![r] = body]
    /\ (ChatInvalid(r, body) \/ ChatHandler(r, body))
    /\ UNCHANGED << groq_api_key, clock, full_response_text, events, appended >>

\* POST /chat
chat_stream(r) == \E body \in Bodies(r) : Chat(r, body)

Summary(id, history) ==
    [session_id    |-> id,
     message_count |-> Len(history),
     last_message  |-> IF history # << >> THEN Last(history).timestamp
                       ELSE NoTimestamp]

\* what GET /sessions answers on a store (the order of the list is not
\* modelled)
ListResponse(store) ==
    [status |-> 200,
     body   |-> [id \in DOMAIN store |-> Summary(id, store[id])]]

\* what GET /session/{id} answers on a store
GetResponse(store, id) ==
    IF id \notin DOMAIN store
    THEN [status |-> 404, body |-> << >>]
    ELSE [status |-> 200, body |-> store[id]]

\* what DELETE /session/{id} answers on a store
DeleteResponse(store, id) ==
    IF id \notin DOMAIN store THEN [status |-> 404] ELSE [status |-> 200]

\* delete_session clearing the whole store
DeleteStore_Clear(store, id) ==
    IF id \notin DOMAIN store THEN store ELSE << >>

\* the store DELETE /session/{id} leaves
DeleteStore(store, id) ==
    IF id \notin DOMAIN store THEN store
    ELSE [k \in DOMAIN store \ {id} |-> store[k]]

\* health_check counting only the sessions that hold a message
HealthResponse_NonEmpty(store, key) ==
    [status |-> 200,
     body   |-> [active_sessions     |->
                    Cardinality({id \in DOMAIN store : store[id] # << >>}),
                 groq_api_configured |-> key]]

\* what GET /health answers
HealthResponse(store, key) ==
    [status |-> 200,
     body   |-> [active_sessions     |-> Cardinality(DOMAIN store),
                 groq_api_configured |-> key]]

\* GET /sessions: answers ListResponse(session_store)
list_sessions ==
    UNCHANGED vars

\* GET /session/{session_id}: answers GetResponse(session_store, id)
get_session(id) ==
    /\ id \in PathIds
    /\ UNCHANGED vars

\* DELETE /session/{session_id}: answers DeleteResponse(session_store, id)
delete_session(id) ==
    /\ id \in PathIds
    /\ session_store' = DeleteStore(session_store, id)
    /\ UNCHANGED << groq_api_key, clock, uuids_issued, reqvars >>

\* GET /health: answers HealthResponse(session_store, groq_api_key)
health_check ==
    UNCHANGED vars

\* time passes
Tick ==
    /\ clock < MaxClock
    /\ clock' = clock + 1
    /\ UNCHANGED << session_store, groq_api_key, uuids_issued, reqvars >>

(***************************************************************************)
(* Specifications.                                                         *)
(***************************************************************************)

NoBody == [message |-> << >>, session_id |-> NoneId]

\* a fresh process
Init ==
    /\ session_store = << >>
    /\ groq_api_key \in BOOLEAN
    /\ clock = 0
    /\ uuids_issued = {}
    /\ pc = [r \in Requests |-> "idle"]
    /\ request = [r \in Requests |-> NoBody]
    /\ session_id = [r \in Requests |-> NoneId]
    /\ agent = [r \in Requests |-> NoAgent]
    /\ full_response_text = [r \in Requests |-> << >>]
    /\ events = [r \in Requests |-> << >>]
    /\ appended = [r \in Requests |-> << >>]
    /\ status = [r \in Requests |-> 0]

Next ==
    \/ \E r \in Requests : chat_stream(r)
    \/ \E r \in Requests : RelayStart(r)
    \/ \E r \in Requests : RelayRun(r)
    \/ list_sessions
    \/ \E id \in NamedIds \cup Uuids : get_session(id)
    \/ \E id \in NamedIds \cup Uuids : delete_session(id)
    \/ health_check
    \/ Tick

Spec == Init /\ [][Next]_vars

(***************************************************************************)
(* A process that has already served requests: session s1 holds some       *)
(* history, request 1 is about to arrive, and the other request has been   *)
(* rejected (422) without effect.                                          *)
(***************************************************************************)
SeedUser      == Message("user", <<"h">>, 0)
SeedAssistant == Message("assistant", <<"a">>, 0)

RECURSIVE SeedHistories(_)
SeedHistories(n) ==
    IF n <= 0 THEN {<< >>}
    ELSE LET shorter == SeedHistories(n - 1)
         IN  shorter \cup {Append(h, m) : h \in shorter,
                                          m \in {SeedUser, SeedAssistant}}

SeededInit ==
    /\ session_store \in {("s1" :> h) : h \in SeedHistories(MaxSeed)}
    /\ groq_api_key = TRUE
    /\ clock = 0
    /\ uuids_issued = {}
    /\ pc = [r \in Requests |-> IF r = 1 THEN "idle" ELSE "closed"]
    /\ request = [r \in Requests |-> NoBody]
    /\ session_id = [r \in Requests |-> NoneId]
    /\ agent = [r \in Requests |-> NoAgent]
    /\ full_response_text = [r \in Requests |-> << >>]
    /\ events = [r \in Requests |-> << >>]
    /\ appended = [r \in Requests |-> << >>]
    /\ status = [r \in Requests |-> IF r = 1 THEN 0 ELSE 422]

SeededSpec == SeededInit /\ [][Next]_vars

(***************************************************************************)
(* A process in which session s1 has been written by relays that ran one   *)
(* after the other, each ending with done after some text: its history is  *)
(* a number of whole exchanges.  Request 1 is about to arrive, the other   *)
(* request has been rejected (422) without effect.                         *)
(***************************************************************************)
RECURSIVE SeedExchanges(_)
SeedExchanges(k) ==
    IF k <= 0 THEN << >>
    ELSE SeedExchanges(k - 1) \o << SeedUser, SeedAssistant >>

ExchangeInit ==
    /\ session_store \in {("s1" :> SeedExchanges(k)) : k \in 0..MaxExchanges}
    /\ groq_api_key = TRUE
    /\ clock = 0
    /\ uuids_issued = {}
    /\ pc = [r \in Requests |-> IF r = 1 THEN "idle" ELSE "closed"]
    /\ request = [r \in Requests |-> NoBody]
    /\ session_id = [r \in Requests |-> NoneId]
    /\ agent = [r \in Requests |-> NoAgent]
    /\ full_response_text = [r \in Requests |-> << >>]
    /\ events = [r \in Requests |-> << >>]
    /\ appended = [r \in Requests |-> << >>]
    /\ status = [r \in Requests |-> IF r = 1 THEN 0 ELSE 422]

ExchangeSpec == ExchangeInit /\ [][Next]_vars

(***************************************************************************)
(* The chunk loop on a given agent output.  The agent of request 1 is      *)
(* scripted: besides its instructions it carries the chunks its run        *)
(* yields (output), whether its generator raises after the last of them    *)
(* (raises), and how many chunks the loop has taken from it so far (next). *)
(* The relay of request 1 has yielded its start frame; the other request   *)
(* has been rejected (422) without effect.                                 *)
(***************************************************************************)
ScriptedAgents ==
    {[instructions |-> BaseInstructions, output |-> cs, raises |-> b,
      next |-> 0] : cs \in ChunkSeqs(MaxChunks), b \in BOOLEAN}

\* positions after `from` of the chunks of cs the loop yields a frame for
TextPositions(cs, from) ==
    {i \in (from + 1)..Len(cs) : ExtractContent(cs[i]) # << >>}

\* the loop runs on from the chunk it stopped at: up to the next chunk with
\* text, for which it yields a token frame and sleeps, or to the end of the
\* agent's output, where the generator raises or is exhausted
LoopRun(r) ==
    /\ pc[r] = "sleep"
    /\ LET cs   == agent[r].output
           rest == TextPositions(cs, agent[r].next)
       IN  IF rest # {}
           THEN LET i == CHOOSE k \in rest : \A j \in rest : k <= j
                IN  /\ OnToken(r, ExtractContent(cs[i]))
                    /\ agent' = [agent EXCEPT ![r].next = i]
                    /\ pc' = [pc EXCEPT ![r] = "sleep"]
           ELSE /\ IF agent[r].raises THEN OnException(r) ELSE OnExhausted(r)
                /\ agent' = [agent EXCEPT ![r].next = Len(cs)]
                /\ pc' = [pc EXCEPT ![r] = "closed"]
    /\ UNCHANGED << groq_api_key, clock, uuids_issued, request, session_id,
                    status >>

LoopInit ==
    /\ session_store = ("s1" :> << Message("user", <<"h">>, 0) >>)
    /\ groq_api_key = TRUE
    /\ clock = 0
    /\ uuids_issued = {}
    /\ pc = [r \in Requests |-> IF r = 1 THEN "sleep" ELSE "closed"]
    /\ request = [r \in Requests |->
                    IF r = 1 THEN [message |-> <<"h">>, session_id |-> "s1"]
                    ELSE NoBody]
    /\ session_id = [r \in Requests |-> IF r = 1 THEN "s1" ELSE NoneId]
    /\ \E a \in ScriptedAgents :
          agent = [r \in Requests |-> IF r = 1 THEN a ELSE NoAgent]
    /\ full_response_text = [r \in Requests |-> << >>]
    /\ events = [r \in Requests |->
                   IF r = 1 THEN << StartEvent("s1") >> ELSE << >>]
    /\ appended = [r \in Requests |->
                     IF r = 1 THEN << Message("user", <<"h">>, 0) >> ELSE << >>]
    /\ status = [r \in Requests |-> IF r = 1 THEN 200 ELSE 422]

LoopNext == \E r \in Requests : LoopRun(r)

LoopSpec == LoopInit /\ [][LoopNext]_vars

(***************************************************************************)
(* Properties.                                                             *)
(***************************************************************************)
\* role and content of a message
Strip(m) == [role |-> m.role, content |-> m.content]

UserEntry(r) == [role |-> "user", content |-> request[r].message]

\* the token fragments of a frame sequence, concatenated in emission order
RECURSIVE ConcatTokens(_)
ConcatTokens(evs) ==
    IF evs = << >> THEN << >>
    ELSE LET e == evs[Len(evs)]
             front == ConcatTokens(SubSeq(evs, 1, Len(evs) - 1))
         IN  IF e.type = "token" THEN front \o e.content ELSE front

\* the relay of request r has yielded its last frame
RelayOver(r) == pc[r] = "closed" /\ status[r] = 200

\* the step in which the relay of request r yields a frame of the given type
Yields(r, type) ==
    /\ Len(events'[r]) = Len(events[r]) + 1
    /\ Last(events'[r]).type = type

\* C1: the frames of every relay are one start frame, then token frames,
\* then one done or error frame: the first frame is the start frame and no
\* later one is, a done or error frame is the last frame (so nothing follows
\* it and the two never both occur), a relay that is still running has
\* yielded no done or error frame, and a relay that is over has yielded one.
C1_EventOrder ==
    \A r \in Requests :
        LET e == events[r]
        IN  /\ pc[r] \in {"idle", "response"} => e = << >>
            /\ e # << >> => e[1].type = "start"
            /\ \A i \in 2..Len(e) : e[i].type \in {"token"} \cup Terminal
            /\ \A i \in 1..(Len(e) - 1) : e[i].type \notin Terminal
            /\ pc[r] = "sleep" => e # << >> /\ Last(e).type \notin Terminal
            /\ RelayOver(r) => Len(e) >= 2 /\ Last(e).type \in Terminal

\* a relay whose agent raised after two token frames
C1_Witness ==
    \E r \in Requests :
        /\ RelayOver(r)
        /\ Len(events[r]) = 4
        /\ events[r][2].type = "token"
        /\ events[r][3].type = "token"
        /\ events[r][4].type = "error"

\* C2 as stated: every relay that ended with the done frame has added two
\* entries to the history, the user entry with the request message and the
\* assistant entry with the concatenated token fragments.
C2_TwoEntriesAlways ==
    \A r \in Requests :
        RelayOver(r) /\ Last(events[r]).type = "done" =>
            /\ Len(appended[r]) = 2
            /\ Strip(appended[r][1]) = UserEntry(r)
            /\ Strip(appended[r][2]) =
                  [role |-> "assistant", content |-> ConcatTokens(events[r])]

\* C2 (amended): the step that yields the done frame appends, if the relay
\* has yielded at least one token frame, one assistant entry whose content is
\* the concatenation of the token fragments in emission order to the end of
\* the session's history, which makes two entries added by the relay, the
\* first being the user entry with the request message; if the relay has
\* yielded no token frame the step leaves the store alone and the user entry
\* is the only entry the relay has added.
C2_DoneAppends ==
    [][\A r \in Requests :
          Yields(r, "done") =>
             LET text   == ConcatTokens(events'[r])
                 id     == session_id[r]
                 answer == Message("assistant", text, clock)
             IN  /\ Strip(appended[r][1]) = UserEntry(r)
                 /\ IF text # << >>
                    THEN /\ session_store' =
                              [k \in DOMAIN session_store \cup {id} |->
                                 IF k = id
                                 THEN Append(HistoryOf(session_store, id), answer)
                                 ELSE session_store[k]]
                         /\ appended'[r] = << appended[r][1], answer >>
                    ELSE /\ session_store' = session_store
                         /\ appended'[r] = << appended[r][1] >>]_vars

\* a relay that ended with done after the fragments "a" and "b", in a
\* session that now ends with its two entries
C2_Witness ==
    \E r \in Requests :
        /\ RelayOver(r)
        /\ Last(events[r]).type = "done"
        /\ Len(appended[r]) = 2
        /\ appended[r][2].content = <<"a", "b">>
        /\ session_id[r] \in DOMAIN session_store
        /\ Len(session_store[session_id[r]]) >= 2
        /\ Last(session_store[session_id[r]]) = appended[r][2]

\* C3: the step that yields the error frame leaves the session store alone,
\* and the only entry the relay has added by then is the user entry with the
\* request message, whether or not token frames were yielded before.
C3_ErrorKeepsUserOnly ==
    [][\A r \in Requests :
          Yields(r, "error") =>
             /\ session_store' = session_store
             /\ appended'[r] = appended[r]
             /\ Len(appended[r]) = 1
             /\ Strip(appended[r][1]) = UserEntry(r)
             /\ \A i \in 1..Len(appended[r]) : appended[r][i].role # "assistant"]_vars

\* a relay whose agent raised after a token frame: the session still ends
\* with the user entry
C3_Witness ==
    \E r \in Requests :
        /\ RelayOver(r)
        /\ Last(events[r]).type = "error"
        /\ full_response_text[r] # << >>
        /\ session_id[r] \in DOMAIN session_store
        /\ Len(session_store[session_id[r]]) = 1
        /\ session_store[session_id[r]] = appended[r]

\* C4: nothing serializes the appends of two requests on one session id:
\* while one relay is between its start frame and its last frame, the first
\* segment of another relay on the same session id (the one that appends that
\* request's user entry) can run.
C4_NotSerialized ==
    \A r \in Requests : \A q \in Requests \ {r} :
        /\ pc[r] = "sleep"
        /\ pc[q] = "response"
        /\ session_id[q] = session_id[r]
        => ENABLED RelayStart(q)

\* both relays ran on session s1 and both are over: the history holds the
\* two user entries before the two assistant entries
C4_Witness ==
    /\ \A r \in Requests : RelayOver(r) /\ session_id[r] = "s1"
    /\ "s1" \in DOMAIN session_store
    /\ Len(session_store["s1"]) = 4
    /\ Strip(session_store["s1"][1]) = UserEntry(1)
    /\ Strip(session_store["s1"][2]) = UserEntry(2)
    /\ session_store["s1"][3].role = "assistant"
    /\ session_store["s1"][4].role = "assistant"

\* C5: on every store the program reaches, DELETE of an id that names no
\* session answers 404 and leaves the store as it is; DELETE of an id that
\* names a session answers 200 and leaves a store without that id, with all
\* other sessions as they were, on which GET of the id answers 404.
C5_DeleteThenGet ==
    \A id \in NamedIds \cup Uuids :
        LET after == DeleteStore(session_store, id)
        IN  IF id \notin DOMAIN session_store
            THEN /\ DeleteResponse(session_store, id).status = 404
                 /\ after = session_store
            ELSE /\ DeleteResponse(session_store, id).status = 200
                 /\ DOMAIN after = DOMAIN session_store \ {id}
                 /\ \A k \in DOMAIN after : after[k] = session_store[k]
                 /\ GetResponse(after, id).status = 404

\* the session of a running relay has been deleted, the session of the
\* other request is still there with its history
C5_Witness ==
    \E r \in Requests : \E q \in Requests \ {r} :
        /\ pc[r] = "sleep"
        /\ session_id[r] \notin DOMAIN session_store
        /\ GetResponse(session_store, session_id[r]).status = 404
        /\ session_id[q] \in DOMAIN session_store
        /\ session_store[session_id[q]] # << >>
        /\ session_store[session_id[q]] = appended[q]

\* the step in which the handler of request r resolves its session id
Resolves(r) ==
    /\ pc[r] = "idle"
    /\ pc'[r] # "idle"
    /\ request'[r].message # << >>
    /\ groq_api_key

\* C6 as stated: an id that names a session is returned and nothing changes;
\* any other id the client gives is returned and initialised empty; without
\* an id a fresh one is generated and initialised empty.
C6_AnyClientIdAccepted ==
    [][\A r \in Requests :
          Resolves(r) =>
             LET given    == request'[r].session_id
                 returned == session_id'[r]
             IN  IF given \in DOMAIN session_store
                 THEN /\ returned = given
                      /\ session_store' = session_store
                 ELSE IF given # NoneId
                 THEN /\ returned = given
                      /\ session_store' = session_store @@ (given :> << >>)
                 ELSE /\ returned \notin DOMAIN session_store \cup {NoneId, ""}
                      /\ session_store' = session_store @@ (returned :> << >>)]_vars

\* C6 (amended): an id that names a session is returned and nothing changes;
\* a non-empty id that names no session is returned and initialised empty;
\* without an id, or with the empty string as id, a fresh id that names no
\* session is generated and initialised empty.  In the last two cases GET on
\* the returned id answers an empty history.
C6_ResolveOrCreate ==
    [][\A r \in Requests :
          Resolves(r) =>
             LET given    == request'[r].session_id
                 returned == session_id'[r]
             IN  IF given \in DOMAIN session_store
                 THEN /\ returned = given
                      /\ session_store' = session_store
                 ELSE /\ IF given \notin {NoneId, ""}
                         THEN returned = given
                         ELSE returned \notin DOMAIN session_store
                                                 \cup {NoneId, ""}
                      /\ session_store' = session_store @@ (returned :> << >>)
                      /\ GetResponse(session_store', returned) =
                            [status |-> 200, body |-> << >>]]_vars

\* a request that gave the empty string as id got a generated id, whose
\* session is empty before the first append
C6_Witness ==
    \E r \in Requests :
        /\ pc[r] = "response"
        /\ request[r].session_id = ""
        /\ session_id[r] \in Uuids
        /\ GetResponse(session_store, session_id[r]) =
              [status |-> 200, body |-> << >>]

\* C7: in every step other than the DELETE of a session, the session stays
\* and its history before the step is a prefix of its history after it, at
\* most one entry longer; and every append of a relay puts exactly its one
\* new message at the end of the session's history.
C7_AppendOnly ==
    [][/\ \A id \in DOMAIN session_store :
             ~delete_session(id) =>
                /\ id \in DOMAIN session_store'
                /\ IsPrefix(session_store[id], session_store'[id])
                /\ Len(session_store'[id]) <= Len(session_store[id]) + 1
       /\ \A r \in Requests :
             appended'[r] # appended[r] =>
                LET new == Last(appended'[r])
                    id  == session_id[r]
                IN  /\ appended'[r] = Append(appended[r], new)
                    /\ id \in DOMAIN session_store'
                    /\ session_store'[id] =
                          Append(HistoryOf(session_store, id), new)]_vars

\* four appends of two relays to one session: a history of length four that
\* holds the relays' messages in the order of the appends
C7_Witness ==
    \E id \in DOMAIN session_store :
        /\ Len(session_store[id]) = 4
        /\ \A r \in Requests : Len(appended[r]) = 2 /\ session_id[r] = id
        /\ session_store[id][1] = appended[1][1]
        /\ session_store[id][2] = appended[1][2]
        /\ session_store[id][3] = appended[2][1]
        /\ session_store[id][4] = appended[2][2]
        /\ session_store[id][4].timestamp > session_store[id][1].timestamp

\* the smaller of two numbers
Min(a, b) == IF a < b THEN a ELSE b

\* C8: the instruction list of a newly built agent is the four fixed rules
\* followed, unless the session's history at build time is empty, by one
\* context block that renders exactly the last min(6, n) entries of that
\* history, in their order (n being the length of the history).
C8_ContextWindow ==
    [][\A r \in Requests :
          pc[r] = "idle" /\ pc'[r] = "response" =>
             LET h == HistoryOf(session_store', session_id'[r])
                 n == Len(h)
                 k == Min(6, n)
                 built == agent'[r].instructions
             IN  /\ SubSeq(built, 1, 4) = BaseInstructions
                 /\ IF n = 0
                    THEN Len(built) = 4
                    ELSE /\ Len(built) = 5
                         /\ built[5].kind = "context"
                         /\ Len(built[5].lines) = k
                         /\ k <= 6
                         /\ \A i \in 1..k :
                               built[5].lines[i] = Strip(h[n - k + i])]_vars

\* an agent built on a history of seven entries whose first two entries
\* differ: its context holds six lines, starting with the second entry
C8_Witness ==
    \E r \in Requests :
        /\ pc[r] = "response"
        /\ session_id[r] \in DOMAIN session_store
        /\ Len(session_store[session_id[r]]) = 7
        /\ session_store[session_id[r]][1].role # session_store[session_id[r]][2].role
        /\ Len(agent[r].instructions) = 5
        /\ Len(agent[r].instructions[5].lines) = 6
        /\ agent[r].instructions[5].lines[1] = Strip(session_store[session_id[r]][2])

\* the user entry of request r is in its session's history
HasUserEntry(store, r) ==
    /\ session_id[r] \in DOMAIN store
    /\ \E i \in 1..Len(store[session_id[r]]) :
          Strip(store[session_id[r]][i]) = UserEntry(r)

\* C9: the step that yields the start frame of a relay is the relay's first
\* yield, the frame names the resolved session, and after that step the
\* session exists, the last entry of its history is the user entry with the
\* request's message and GET on the id answers a history that ends with it;
\* from then on the entry stays in the history through every step that is
\* not a DELETE of the session.
C9_UserBeforeStart ==
    [][\A r \in Requests :
          /\ events[r] = << >> /\ events'[r] # << >> =>
                LET id == session_id[r]
                IN  /\ events'[r] = << StartEvent(id) >>
                    /\ id \in DOMAIN session_store'
                    /\ session_store'[id] # << >>
                    /\ Strip(Last(session_store'[id])) = UserEntry(r)
                    /\ GetResponse(session_store', id).status = 200
                    /\ Strip(Last(GetResponse(session_store', id).body)) =
                          UserEntry(r)
          /\ /\ events[r] # << >>
             /\ HasUserEntry(session_store, r)
             /\ ~delete_session(session_id[r])
             => HasUserEntry(session_store', r)]_vars

\* a relay that has yielded only its start frame, in a session that the
\* other request wrote to before: the history ends with the user entry
C9_Witness ==
    \E r \in Requests :
        /\ pc[r] = "sleep"
        /\ events[r] = << StartEvent(session_id[r]) >>
        /\ session_id[r] \in DOMAIN session_store
        /\ Len(session_store[session_id[r]]) >= 2
        /\ Strip(Last(session_store[session_id[r]])) = UserEntry(r)

\* C10: a POST /chat with an empty message is answered 422 and the step
\* changes neither the session store nor any relay's frames or appends, nor
\* does it draw a session id, whatever session id the body carries; and a
\* request answered 422 never has a frame or an append.
C10_MalformedRejected ==
    [][\A r \in Requests :
          /\ pc[r] = "idle" /\ pc'[r] # "idle" /\ request'[r].message = << >> =>
                /\ status'[r] = 422
                /\ pc'[r] = "closed"
                /\ session_store' = session_store
                /\ uuids_issued' = uuids_issued
                /\ session_id'[r] = NoneId
                /\ events' = events
                /\ appended' = appended
          /\ status'[r] = 422 =>
                events'[r] = << >> /\ appended'[r] = << >>]_vars

\* the first request, with an empty message and the unknown session id s1,
\* was answered 422: there is still no session
C10_Witness ==
    /\ pc[1] = "closed"
    /\ status[1] = 422
    /\ request[1] = [message |-> << >>, session_id |-> "s1"]
    /\ session_store = << >>
    /\ events[1] = << >>

\* the step in which the handler of request r answers 500
Fails(r) == status[r] # 500 /\ status'[r] = 500

\* C11: a POST /chat with a valid body is answered 500 when the credential
\* is absent, and a 500 answer (credential absent or agent constructor
\* raised) ends the request before the response starts: the step yields no
\* frame, registers no append and leaves no agent, every history of the store
\* after the step is the history before it (a session the step created is
\* empty), and from then on the request stays closed with no frame, no
\* append and no accumulated text, and neither segment of the relay (the one
\* that yields start, the one that runs the agent) can run for it.
C11_FailsBeforeStreaming ==
    [][\A r \in Requests :
          /\ /\ pc[r] = "idle" /\ pc'[r] # "idle"
             /\ request'[r].message # << >>
             /\ ~groq_api_key
             => Fails(r)
          /\ Fails(r) =>
                /\ pc[r] = "idle" /\ pc'[r] = "closed"
                /\ events' = events
                /\ appended' = appended
                /\ agent'[r] = NoAgent
                /\ DOMAIN session_store \subseteq DOMAIN session_store'
                /\ \A id \in DOMAIN session_store' :
                      session_store'[id] = HistoryOf(session_store, id)
          /\ status'[r] = 500 =>
                /\ pc'[r] = "closed"
                /\ events'[r] = << >>
                /\ appended'[r] = << >>
                /\ full_response_text'[r] = << >>
          /\ status[r] = 500 =>
                /\ status'[r] = 500
                /\ ~ENABLED RelayStart(r)
                /\ ~ENABLED RelayRun(r)]_vars

\* the agent constructor raised for the second request while the relay of
\* the first request is running: the second request has no frame and no
\* append, and the first relay's session holds only that relay's user entry
C11_Witness ==
    /\ groq_api_key
    /\ status[2] = 500
    /\ pc[2] = "closed"
    /\ events[2] = << >>
    /\ appended[2] = << >>
    /\ pc[1] = "sleep"
    /\ session_id[2] = session_id[1]
    /\ session_id[1] \in DOMAIN session_store
    /\ session_store[session_id[1]] = appended[1]

\* the relay of request r has yielded its start frame and nothing else: the
\* next statement it runs is agent.run
BeforeAgentRun(r) ==
    pc[r] = "sleep" /\ events[r] = << StartEvent(session_id[r]) >>

\* C12: the relay suspends while it waits for the agent's next chunk and in
\* a pause after every frame it yields: the segment that calls agent.run
\* ends at the wait for the first chunk, before any frame is yielded or any
\* entry appended, and every step that yields a frame, the done and error
\* frames included, leaves the relay in the pause that follows the frame.
C12_SuspendsAtChunkAndPause ==
    [][\A r \in Requests :
          /\ BeforeAgentRun(r) =>
                /\ events'[r] = events[r]
                /\ appended'[r] = appended[r]
          /\ events'[r] # events[r] => pc'[r] = "sleep"]_vars

\* the fragment a chunk contributes: the text of the content field of a
\* structured chunk whose content is not null, a plain-text chunk itself,
\* nothing for any other chunk
Fragment(chunk) ==
    CASE chunk.kind = "obj" /\ chunk.has_content -> chunk.text
      [] chunk.kind = "str"                      -> chunk.text
      [] OTHER                                   -> << >>

\* the token frames of the non-empty fragments of a chunk sequence, in order
RECURSIVE FragmentFrames(_)
FragmentFrames(cs) ==
    IF cs = << >> THEN << >>
    ELSE LET f == Fragment(Head(cs))
         IN  (IF f # << >> THEN << TokenEvent(f) >> ELSE << >>)
                \o FragmentFrames(Tail(cs))

IsToken(e) == e.type = "token"

\* C14: for every agent output, the token frames the relay has yielded are
\* exactly, in order, the non-empty fragments of the chunks the loop has
\* taken so far, and once the relay is over those of the whole output, with
\* nothing but the start frame before them and the done or error frame after
\* them; a chunk without text yields no frame; no token frame is empty; the
\* accumulator is the concatenation of the fragments.
C14_TokensAreFragments ==
    \A r \in Requests :
        events[r] # << >> =>
            LET cs    == agent[r].output
                taken == SubSeq(cs, 1, agent[r].next)
            IN  /\ SelectSeq(events[r], IsToken) = FragmentFrames(taken)
                /\ \A i \in 1..Len(events[r]) :
                      IsToken(events[r][i]) => events[r][i].content # << >>
                /\ full_response_text[r] = ConcatTokens(FragmentFrames(taken))
                /\ RelayOver(r) =>
                      /\ taken = cs
                      /\ SubSeq(events[r], 2, Len(events[r]) - 1) =
                            FragmentFrames(cs)

\* the agent yielded a structured chunk without content, the plain text "b"
\* and the structured chunk "a": the relay ended with start, token b,
\* token a, done
C14_Witness ==
    /\ RelayOver(1)
    /\ Len(agent[1].output) = 3
    /\ agent[1].output[1] = [kind |-> "obj", has_content |-> FALSE, text |-> <<>>]
    /\ agent[1].output[2] = [kind |-> "str", has_content |-> FALSE, text |-> <<"b">>]
    /\ agent[1].output[3] = [kind |-> "obj", has_content |-> TRUE, text |-> <<"a">>]
    /\ events[1] = << StartEvent("s1"), TokenEvent(<<"b">>), TokenEvent(<<"a">>),
                      DoneEvent("s1") >>

\* a sequence of whole exchanges: a user entry followed by an assistant
\* entry, any number of times
WholeExchanges(msgs) ==
    /\ Len(msgs) % 2 = 0
    /\ \A i \in 1..Len(msgs) :
          msgs[i].role = IF i % 2 = 1 THEN "user" ELSE "assistant"

\* C15 as stated: in every reachable state, the window of the last six
\* entries of every session's history (what a new agent would be given) is a
\* sequence of whole user/assistant exchanges.
C15_AlwaysWholeExchanges ==
    \A id \in DOMAIN session_store :
        WholeExchanges(PySuffix(session_store[id], ContextWindow))

\* C15 (amended): an agent built on a history of whole exchanges is given a
\* window of whole exchanges, at most three, namely the last ones of the
\* history; and the step that yields done after some text, on a history that
\* is whole exchanges followed by one user entry, leaves a history of whole
\* exchanges.
C15_WholeExchangesKept ==
    [][\A r \in Requests :
          /\ /\ pc[r] = "idle" /\ pc'[r] = "response"
             /\ WholeExchanges(HistoryOf(session_store', session_id'[r]))
             => LET h     == HistoryOf(session_store', session_id'[r])
                    built == agent'[r].instructions
                    lines == IF Len(built) > 4 THEN built[5].lines ELSE << >>
                IN  /\ WholeExchanges(lines)
                    /\ Len(lines) = Min(ContextWindow, Len(h))
                    /\ Len(lines) <= 2 * 3
                    /\ \A i \in 1..Len(lines) :
                          lines[i] = Strip(h[Len(h) - Len(lines) + i])
          /\ /\ Yields(r, "done")
             /\ full_response_text[r] # << >>
             /\ LET h == HistoryOf(session_store, session_id[r])
                IN  /\ h # << >>
                    /\ Last(h).role = "user"
                    /\ WholeExchanges(SubSeq(h, 1, Len(h) - 1))
             => WholeExchanges(HistoryOf(session_store', session_id[r]))]_vars

\* a relay that ran on a history of four exchanges and ended with done after
\* some text: its agent was given the last three exchanges, and the history
\* now holds five exchanges
C15_Witness ==
    \E r \in Requests :
        /\ RelayOver(r)
        /\ Last(events[r]).type = "done"
        /\ session_id[r] \in DOMAIN session_store
        /\ Len(session_store[session_id[r]]) = 10
        /\ WholeExchanges(session_store[session_id[r]])
        /\ Len(agent[r].instructions) = 5
        /\ Len(agent[r].instructions[5].lines) = 6
        /\ agent[r].instructions[5].lines[1] = Strip(session_store[session_id[r]][3])
        /\ agent[r].instructions[5].lines[1].role = "user"

\* the active_sessions GET /health reports on a store
ActiveSessions(store) == HealthResponse(store, groq_api_key).body.active_sessions

\* C16: GET /health answers 200 with active_sessions equal to the number of
\* ids for which GET /session/{id} answers 200; it reports 0 on the empty
\* store of a fresh process; every step that creates a session (a chat
\* request resolving an unknown or absent id, or a relay appending to a
\* session that is gone) raises the count by one, every DELETE of an
\* existing session lowers it by one, and every other step, GET /health
\* included, leaves the count and the sessions as they are.
C16_HealthCountsSessions ==
    [][LET before  == ActiveSessions(session_store)
           after   == ActiveSessions(session_store')
           created == DOMAIN session_store' \ DOMAIN session_store
           removed == DOMAIN session_store \ DOMAIN session_store'
       IN  /\ HealthResponse(session_store', groq_api_key').status = 200
           /\ after = Cardinality({id \in NamedIds \cup Uuids :
                          GetResponse(session_store', id).status = 200})
           /\ session_store = << >> => before = 0
           /\ IF created # {}
              THEN /\ Cardinality(created) = 1
                   /\ removed = {}
                   /\ after = before + 1
              ELSE IF \E id \in DOMAIN session_store : delete_session(id)
              THEN /\ Cardinality(removed) = 1
                   /\ after = before - 1
              ELSE /\ removed = {}
                   /\ after = before
           /\ health_check => UNCHANGED vars]_vars

\* two sessions were created, one of them was deleted during its relay:
\* GET /health reports one active session
C16_Witness ==
    \E r \in Requests : \E q \in Requests \ {r} :
        /\ pc[r] = "sleep"
        /\ session_id[r] \notin DOMAIN session_store
        /\ session_id[q] \in DOMAIN session_store
        /\ session_store[session_id[q]] = << >>
        /\ ActiveSessions(session_store) = 1

\* the step in which the relay of request r, whose user entry a DELETE has
\* removed from the store, yields done after some text
DoneAfterDelete(r) ==
    /\ Yields(r, "done")
    /\ full_response_text[r] # << >>
    /\ appended[r] # << >>
    /\ ~HasUserEntry(session_store, r)

\* C17 as stated: when the session of a relay was deleted after the relay
\* appended its user entry, then after the step that yields done after some
\* text the session exists and its history is the relay's assistant entry
\* alone.
C17_OnlyAssistantEntry ==
    [][\A r \in Requests :
          DoneAfterDelete(r) =>
             /\ session_id[r] \in DOMAIN session_store'
             /\ session_store'[session_id[r]] = << Last(appended'[r]) >>
             /\ Last(appended'[r]).role = "assistant"]_vars

\* C17 (amended): when the session of a relay was deleted after the relay
\* appended its user entry, then after the step that yields done after some
\* text the session exists, GET on it answers 200, its history ends with the
\* relay's assistant entry and does not hold the relay's user entry; the
\* assistant entry is the whole history if the session was still gone before
\* the step, and otherwise follows what other requests wrote after the
\* DELETE.
C17_RecreatedByRelay ==
    [][\A r \in Requests :
          DoneAfterDelete(r) =>
             LET id     == session_id[r]
                 answer == Last(appended'[r])
             IN  /\ answer = Message("assistant", full_response_text[r], clock)
                 /\ id \in DOMAIN session_store'
                 /\ GetResponse(session_store', id).status = 200
                 /\ session_store'[id] =
                       Append(HistoryOf(session_store, id), answer)
                 /\ ~HasUserEntry(session_store', r)
                 /\ id \notin DOMAIN session_store =>
                       session_store'[id] = << answer >>]_vars

\* the relay's session was deleted during the relay and nobody wrote to it
\* since: after done its history is the assistant entry alone
C17_Witness ==
    \E r \in Requests :
        /\ RelayOver(r)
        /\ Last(events[r]).type = "done"
        /\ Len(appended[r]) = 2
        /\ session_id[r] \in DOMAIN session_store
        /\ session_store[session_id[r]] = << appended[r][2] >>
        /\ GetResponse(session_store, session_id[r]).body = << appended[r][2] >>

\* C18: a POST /chat that is answered 500, for want of the credential or
\* because the agent constructor raised, leaves the session store as it
\* was: it creates no session.
C18_FailureLeavesStore ==
    [][\A r \in Requests :
          Fails(r) => session_store' = session_store]_vars

\* a step of the relay of request r: it yields a frame
RelayStep(r) == events'[r] # events[r]

\* C19: the id resolved for a request stays that of its relay; every step
\* of the relay leaves every other session as it was (neither changed, nor
\* created, nor removed) and keeps its own session; what the step appends,
\* it appends to the history of the resolved id; and the start frame and the
\* done frame of the relay both carry the resolved id.
C19_RelayTouchesOwnSession ==
    [][\A r \in Requests :
          /\ status[r] = 200 => session_id'[r] = session_id[r]
          /\ RelayStep(r) =>
                LET s == session_id[r]
                IN  /\ s \in PathIds
                    /\ DOMAIN session_store' \ {s} = DOMAIN session_store \ {s}
                    /\ \A id \in DOMAIN session_store \ {s} :
                          session_store'[id] = session_store[id]
                    /\ s \in DOMAIN session_store => s \in DOMAIN session_store'
                    /\ appended'[r] # appended[r] =>
                          /\ s \in DOMAIN session_store'
                          /\ session_store'[s] =
                                Append(HistoryOf(session_store, s),
                                       Last(appended'[r]))
                    /\ appended'[r] = appended[r] =>
                          session_store' = session_store
                    /\ \A i \in 1..Len(events'[r]) :
                          events'[r][i].type \in {"start", "done"} =>
                             events'[r][i].session_id = s]_vars

\* two relays on two sessions, both ended with done after some text: each
\* session holds the two entries of its relay and nothing else, and each
\* relay's start and done frames name its session
C19_Witness ==
    /\ \A r \in Requests :
          /\ RelayOver(r)
          /\ Last(events[r]).type = "done"
          /\ Len(appended[r]) = 2
          /\ session_id[r] \in DOMAIN session_store
          /\ session_store[session_id[r]] = appended[r]
          /\ events[r][1] = StartEvent(session_id[r])
          /\ Last(events[r]) = DoneEvent(session_id[r])
    /\ session_id[1] # session_id[2]

====
